---- MODULE Spec2Model ----
(***************************************************************************)
(* Model of the marker-scanning / splicing engine of                      *)
(* "Website Creating Automation/website_automation.py":                   *)
(*   find_nth_occurrence, get_segment_in_html, replace_segment_in_html,   *)
(*   update_html_content / process_html_template,                         *)
(*   replace_all_markers_in_html.                                         *)
(* Text is a sequence of one-character strings; offsets are 0-based as in *)
(* Python, sequence positions 1-based as in TLA+.                         *)
(***************************************************************************)
EXTENDS Integers, Sequences, FiniteSets, TLC

VARIABLES
    pc,                   \* position of the caller / of the running loop
    html_content,         \* argument html_content
    search_start_marker,  \* argument search_start_marker
    search_end_marker,    \* argument search_end_marker
    start_occurrence,     \* argument start_occurrence / n
    end_occurrence,       \* argument end_occurrence
    replacement_text,     \* argument replacement_text
    outcome,              \* "none" | "returned" | "terminated" (sys.exit)
    ret,                  \* <<>> when nothing was returned, <<value>> otherwise
    log,                  \* lines appended to processing_log.txt by this run
    replacements_config,  \* ordered rules of update_html_content
    ruleIdx,              \* number of rules update_html_content has finished
    updated_content,      \* local updated_content of update_html_content
    data,                 \* cell values read from the Excel sheet, by key
    saved,                \* <<>> or <<text written by save_html_content>>
    markers,              \* ordered (start, end) -> (start_tag, end_tag) pairs
    pairIdx,              \* index of the pair replace_all_markers_in_html is on
    updated_html,         \* local updated_html of replace_all_markers_in_html
    paragraphs,           \* non-empty paragraphs docx2python extracted
    paraIdx,              \* number of paragraphs the list converter has processed
    entire_start,         \* argument entire_start
    entire_end,           \* argument entire_end
    p_start,              \* argument p_start
    p_end,                \* argument p_end
    list_stack,           \* open lists, outermost first, each "ul" or "ol"
    html_fragments,       \* fragments docx_to_html_with_docx2python has emitted
    md_lines,             \* markdown_text.splitlines()
    lineIdx,              \* number of lines markdown_to_html has processed
    html_lines,           \* fragments markdown_to_html has emitted
    in_list,              \* markdown_to_html: an unordered list is open
    in_ordered_list,      \* markdown_to_html: an ordered list is open
    in_paragraph,         \* markdown_to_html: a paragraph is open
    history,              \* Chatbot.history: turns with fields user and agent
    recent_n              \* argument n of the last get_recent_history, else -1

vars == <<pc, html_content, search_start_marker, search_end_marker,
          start_occurrence, end_occurrence, replacement_text, outcome, ret,
          log, replacements_config, ruleIdx, updated_content, data, saved,
          markers, pairIdx, updated_html,
          paragraphs, paraIdx, entire_start, entire_end, p_start, p_end,
          list_stack, html_fragments,
          md_lines, lineIdx, html_lines, in_list, in_ordered_list, in_paragraph,
          history, recent_n>>

segArgs == <<html_content, search_start_marker, search_end_marker,
             start_occurrence, end_occurrence, replacement_text>>
updVars == <<replacements_config, ruleIdx, updated_content, data, saved>>
bulkVars == <<markers, pairIdx, updated_html>>
listArgs == <<paragraphs, entire_start, entire_end, p_start, p_end>>
listVars == <<listArgs, paraIdx, list_stack, html_fragments>>
mdVars == <<md_lines, lineIdx, html_lines, in_list, in_ordered_list, in_paragraph>>
chatVars == <<history, recent_n>>
convVars == <<listVars, mdVars, chatVars>>

----------------------------------------------------------------------------
(* Bounds of the model *)

MaxLen == 4          \* longest enumerated content
MaxMarkerLen == 2    \* longest enumerated marker
MaxOcc == 4          \* largest occurrence index
MaxRules == 2        \* most rules in a replacements_config
MaxTemplateLen == 3  \* longest enumerated HTML template
MaxBulkLen == 4      \* longest enumerated content of the bulk replacer
MaxPairs == 2        \* most marker pairs in a mapping
MaxParas == 3        \* most enumerated paragraphs of a document
MaxIndent == 2       \* most leading tabs of an enumerated paragraph
MaxLines == 3    \* lines of a markdown text
MaxTurns == 3    \* turns in a Chatbot history
MaxN == 4        \* largest argument n of get_recent_history
MaxGrowth == 3       \* the bulk replacer is followed until the content has
                     \* grown by more than this many characters

Alphabet == {"a", "b"}

Min(S) == CHOOSE x \in S : \A y \in S : x <= y

RECURSIVE SeqsUpTo(_, _)
SeqsUpTo(A, n) ==
    IF n = 0 THEN {<<>>}
    ELSE LET shorter == SeqsUpTo(A, n - 1)
         IN  shorter \cup {Append(s, c) : s \in {t \in shorter : Len(t) = n - 1}, c \in A}

Str6(c1, c2, c3, c4, c5, c6) == <<c1, c2, c3, c4, c5, c6>>
Ababab == Str6("a", "b", "a", "b", "a", "b")

Contents == SeqsUpTo(Alphabet, MaxLen) \cup {Ababab}
Markers == SeqsUpTo(Alphabet, MaxMarkerLen) \ {<<>>}
Replacements == {<<>>, <<"c">>, <<"a", "b">>}

----------------------------------------------------------------------------
(* Python string primitives *)

\* s[lo:hi] with Python's treatment of negative and out-of-range bounds
PyNorm(i, n) == IF i < 0 THEN (IF i + n < 0 THEN 0 ELSE i + n)
                ELSE (IF i > n THEN n ELSE i)
PySlice(s, lo, hi) == SubSeq(s, PyNorm(lo, Len(s)) + 1, PyNorm(hi, Len(s)))
PySliceFrom(s, lo) == PySlice(s, lo, Len(s))
PySliceTo(s, hi) == PySlice(s, 0, hi)

\* s.find(sub, start): lowest offset >= start at which sub occurs, else -1
OccursAt(s, sub, i) ==
    /\ i >= 0
    /\ i + Len(sub) <= Len(s)
    /\ SubSeq(s, i + 1, i + Len(sub)) = sub
PyFind(s, sub, start) ==
    LET hits == {i \in start .. Len(s) : OccursAt(s, sub, i)}
    IN  IF hits = {} THEN -1 ELSE Min(hits)

\* s.startswith(prefix)
PyStartsWith(s, prefix) ==
    Len(prefix) <= Len(s) /\ SubSeq(s, 1, Len(prefix)) = prefix

\* s.replace(old, new): every occurrence of the non-empty old, left to right
RECURSIVE PyReplace(_, _, _)
PyReplace(s, old, new) ==
    LET i == PyFind(s, old, 0)
    IN  IF i = -1 THEN s
        ELSE SubSeq(s, 1, i) \o new
               \o PyReplace(SubSeq(s, i + Len(old) + 1, Len(s)), old, new)

\* sep.join(parts)
RECURSIVE PyJoin(_, _)
PyJoin(parts, sep) ==
    IF parts = <<>> THEN <<>>
    ELSE IF Len(parts) = 1 THEN parts[1]
    ELSE parts[1] \o sep \o PyJoin(Tail(parts), sep)

Digits == {"0", "1", "2", "3", "4", "5", "6", "7", "8", "9"}
Whitespace == {" ", "\t", "\n", "\r"}

\* number of leading characters of s that belong to the class
RECURSIVE LeadingRun(_, _)
LeadingRun(s, class) ==
    IF s # <<>> /\ Head(s) \in class THEN 1 + LeadingRun(Tail(s), class) ELSE 0

----------------------------------------------------------------------------
(* log_message / log_and_terminate *)

LogLine(level, what, marker, occ) == <<level, what, marker, occ>>

----------------------------------------------------------------------------
(* find_nth_occurrence: the while-True loop, one recursion per iteration *)

\* variant: the scan resumes one character after a match (overlapping count)
RECURSIVE find_nth_loop_overlapping(_, _, _, _, _)
find_nth_loop_overlapping(content, substring, n, start, count) ==
    LET index == PyFind(content, substring, start)
    IN  IF index = -1 THEN -1
        ELSE IF count + 1 = n THEN index
        ELSE find_nth_loop_overlapping(content, substring, n, index + 1, count + 1)

RECURSIVE find_nth_loop(_, _, _, _, _)
find_nth_loop(content, substring, n, start, count) ==
    LET index == PyFind(content, substring, start)
    IN  IF index = -1 THEN -1
        ELSE IF count + 1 = n THEN index
        ELSE find_nth_loop(content, substring, n, index + Len(substring), count + 1)

find_nth_occurrence(content, substring, n) ==
    find_nth_loop(content, substring, n, 0, 0)

----------------------------------------------------------------------------
(* get_segment_in_html: log_and_terminate exits at the first missing marker *)

\* variant: the end marker occurrence is counted in the whole content
get_segment_global_end(content, ssm, sem, so, eo) ==
    LET start_index == find_nth_occurrence(content, ssm, so)
        end_index == find_nth_occurrence(content, sem, eo)
    IN  IF start_index = -1
        THEN [outcome |-> "terminated", ret |-> <<>>,
              log |-> <<LogLine("ERROR", "start marker not found", ssm, so)>>]
        ELSE IF end_index = -1
        THEN [outcome |-> "terminated", ret |-> <<>>,
              log |-> <<LogLine("ERROR", "end marker not found", sem, eo)>>]
        ELSE [outcome |-> "returned",
              ret |-> <<PySlice(content, start_index, end_index + Len(sem))>>,
              log |-> <<>>]

\* variant: the returned segment excludes the two markers
get_segment_exclusive(content, ssm, sem, so, eo) ==
    LET start_index == find_nth_occurrence(content, ssm, so)
    IN  IF start_index = -1
        THEN [outcome |-> "terminated", ret |-> <<>>,
              log |-> <<LogLine("ERROR", "start marker not found", ssm, so)>>]
        ELSE LET end_rel == find_nth_occurrence(
                                PySliceFrom(content, start_index + Len(ssm)), sem, eo)
             IN  IF end_rel = -1
                 THEN [outcome |-> "terminated", ret |-> <<>>,
                       log |-> <<LogLine("ERROR", "end marker not found", sem, eo)>>]
                 ELSE LET end_index == start_index + Len(ssm) + end_rel
                      IN  [outcome |-> "returned",
                           ret |-> <<PySlice(content, start_index + Len(ssm), end_index)>>,
                           log |-> <<>>]

\* variant: a missing marker is logged with log_message and the call goes on
get_segment_log_only(content, ssm, sem, so, eo) ==
    LET start_index == find_nth_occurrence(content, ssm, so)
        log1 == IF start_index = -1
                THEN <<LogLine("INFO", "Error: start marker not found", ssm, so)>>
                ELSE <<>>
        end_rel == find_nth_occurrence(
                       PySliceFrom(content, start_index + Len(ssm)), sem, eo)
        log2 == IF end_rel = -1
                THEN <<LogLine("INFO", "Error: end marker not found", sem, eo)>>
                ELSE <<>>
        end_index == start_index + Len(ssm) + end_rel
    IN  [outcome |-> "returned",
         ret |-> <<PySlice(content, start_index, end_index + Len(sem))>>,
         log |-> log1 \o log2]

get_segment_in_html(content, ssm, sem, so, eo) ==
    LET start_index == find_nth_occurrence(content, ssm, so)
    IN  IF start_index = -1
        THEN [outcome |-> "terminated", ret |-> <<>>,
              log |-> <<LogLine("ERROR", "start marker not found", ssm, so)>>]
        ELSE LET end_rel == find_nth_occurrence(
                                PySliceFrom(content, start_index + Len(ssm)), sem, eo)
             IN  IF end_rel = -1
                 THEN [outcome |-> "terminated", ret |-> <<>>,
                       log |-> <<LogLine("ERROR", "end marker not found", sem, eo)>>]
                 ELSE LET end_index == start_index + Len(ssm) + end_rel
                      IN  [outcome |-> "returned",
                           ret |-> <<PySlice(content, start_index, end_index + Len(sem))>>,
                           log |-> <<>>]

----------------------------------------------------------------------------
(* replace_segment_in_html: a missing marker is only logged with          *)
(* log_message; execution continues with the index -1                     *)

\* variant: the suffix starts at the end marker instead of after it
replace_segment_keep_end_marker(content, ssm, sem, replacement, so, eo) ==
    LET start_index == find_nth_occurrence(content, ssm, so)
        log1 == IF start_index = -1
                THEN <<LogLine("INFO", "Error: start marker not found", ssm, so)>>
                ELSE <<>>
        end_rel == find_nth_occurrence(
                       PySliceFrom(content, start_index + Len(ssm)), sem, eo)
        log2 == IF end_rel = -1
                THEN <<LogLine("INFO", "Error: end marker not found", sem, eo)>>
                ELSE <<>>
        end_index == start_index + Len(ssm) + end_rel
        before == PySliceTo(content, start_index)
        after == PySliceFrom(content, end_index)
    IN  [outcome |-> "returned",
         ret |-> <<before \o replacement \o after>>,
         log |-> log1 \o log2]

replace_segment_in_html(content, ssm, sem, replacement, so, eo) ==
    LET start_index == find_nth_occurrence(content, ssm, so)
        log1 == IF start_index = -1
                THEN <<LogLine("INFO", "Error: start marker not found", ssm, so)>>
                ELSE <<>>
        end_rel == find_nth_occurrence(
                       PySliceFrom(content, start_index + Len(ssm)), sem, eo)
        log2 == IF end_rel = -1
                THEN <<LogLine("INFO", "Error: end marker not found", sem, eo)>>
                ELSE <<>>
        end_index == start_index + Len(ssm) + end_rel
        before == PySliceTo(content, start_index)
        after == PySliceFrom(content, end_index + Len(sem))
    IN  [outcome |-> "returned",
         ret |-> <<before \o replacement \o after>>,
         log |-> log1 \o log2]

----------------------------------------------------------------------------
(* Specification of the segment engine: one call per behaviour *)

IdleUpdate ==
    /\ replacements_config = <<>>
    /\ ruleIdx = 0
    /\ updated_content = <<>>
    /\ data = <<>>
    /\ saved = <<>>

IdleBulk ==
    /\ markers = <<>>
    /\ pairIdx = 0
    /\ updated_html = <<>>

IdleList ==
    /\ paragraphs = <<>>
    /\ paraIdx = 0
    /\ entire_start = <<>>
    /\ entire_end = <<>>
    /\ p_start = <<>>
    /\ p_end = <<>>
    /\ list_stack = <<>>
    /\ html_fragments = <<>>

IdleChat ==
    /\ history = <<>>
    /\ recent_n = -1

IdleMarkdown ==
    /\ md_lines = <<>>
    /\ lineIdx = 0
    /\ html_lines = <<>>
    /\ in_list = FALSE
    /\ in_ordered_list = FALSE
    /\ in_paragraph = FALSE

InitSegment ==
    /\ pc = "ready"
    /\ html_content \in Contents
    /\ search_start_marker \in Markers
    /\ search_end_marker \in Markers
    /\ start_occurrence \in 1 .. MaxOcc
    /\ end_occurrence \in 1 .. MaxOcc
    /\ replacement_text \in Replacements
    /\ outcome = "none"
    /\ ret = <<>>
    /\ log = <<>>
    /\ IdleUpdate
    /\ IdleBulk
    /\ IdleList
    /\ IdleMarkdown
    /\ IdleChat

FindNthOccurrence ==
    /\ pc = "ready"
    /\ pc' = "located"
    /\ outcome' = "returned"
    /\ ret' = <<find_nth_occurrence(html_content, search_start_marker, start_occurrence)>>
    /\ UNCHANGED <<convVars, segArgs, log, updVars, bulkVars>>

GetSegmentInHtml ==
    /\ pc = "ready"
    /\ LET r == get_segment_in_html(html_content, search_start_marker,
                    search_end_marker, start_occurrence, end_occurrence)
       IN  /\ outcome' = r.outcome
           /\ ret' = r.ret
           /\ log' = log \o r.log
    /\ pc' = "extracted"
    /\ UNCHANGED <<convVars, segArgs, updVars, bulkVars>>

ReplaceSegmentInHtml ==
    /\ pc = "ready"
    /\ LET r == replace_segment_in_html(html_content, search_start_marker,
                    search_end_marker, replacement_text, start_occurrence,
                    end_occurrence)
       IN  /\ outcome' = r.outcome
           /\ ret' = r.ret
           /\ log' = log \o r.log
    /\ pc' = "replaced"
    /\ UNCHANGED <<convVars, segArgs, updVars, bulkVars>>

\* replace_segment_in_html called with the segment get_segment_in_html returned
ReplaceWithSegment ==
    /\ pc = "extracted"
    /\ outcome = "returned"
    /\ LET r == replace_segment_in_html(html_content, search_start_marker,
                    search_end_marker, ret[1], start_occurrence, end_occurrence)
       IN  /\ outcome' = r.outcome
           /\ ret' = r.ret
           /\ log' = log \o r.log
    /\ pc' = "roundtrip"
    /\ UNCHANGED <<convVars, segArgs, updVars, bulkVars>>

NextSegment ==
    \/ FindNthOccurrence
    \/ GetSegmentInHtml
    \/ ReplaceSegmentInHtml
    \/ ReplaceWithSegment

SpecSegment == InitSegment /\ [][NextSegment]_vars

----------------------------------------------------------------------------
(* update_html_content / process_html_template *)

Keys == <<"TITLE", "META_DESC", "FAQ_SCHEMA", "KEY4">>

\* the entries a replacements_config is built from; search_end_occurrence is
\* left at its default 1
RuleChoices(key) ==
    [key : {key},
     search_start_marker : {<<"a">>, <<"a", "b">>},
     search_end_marker : {<<"b">>, <<"c">>},
     search_start_occurrence : {1, 2},
     search_end_occurrence : {1},
     replacement_start : {<<>>, <<"a">>},
     replacement_end : {<<"b">>}]

\* dicts keep insertion order and have distinct keys: entry i has key Keys[i]
RECURSIVE ConfigsOfLen(_)
ConfigsOfLen(n) ==
    IF n = 0 THEN {<<>>}
    ELSE {Append(c, r) : c \in ConfigsOfLen(n - 1), r \in RuleChoices(Keys[n])}

Configs == UNION {ConfigsOfLen(n) : n \in 1 .. MaxRules}

Templates == SeqsUpTo({"a", "b"}, MaxTemplateLen)

\* what read_excel_data returned: every cell is non-empty, a key may be absent
DataSets == {[k \in {"TITLE"} |-> <<"d">>],
             [k \in {"TITLE", "META_DESC", "FAQ_SCHEMA", "KEY4"} |-> <<"d">>]}

\* data.get(key, "")
DataGet(d, key) == IF key \in DOMAIN d THEN d[key] ELSE <<>>

RuleReplacement(d, config) ==
    config.replacement_start \o DataGet(d, config.key) \o config.replacement_end

IdleSegArgs ==
    /\ search_start_marker = <<>>
    /\ search_end_marker = <<>>
    /\ start_occurrence = 1
    /\ end_occurrence = 1
    /\ replacement_text = <<>>

InitUpdate ==
    /\ pc = "updating"
    /\ html_content \in Templates
    /\ IdleSegArgs
    /\ outcome = "none"
    /\ ret = <<>>
    /\ log = <<>>
    /\ replacements_config \in Configs
    /\ ruleIdx = 0
    /\ updated_content = html_content
    /\ data \in DataSets
    /\ saved = <<>>
    /\ IdleBulk
    /\ IdleList
    /\ IdleMarkdown
    /\ IdleChat

\* one iteration of the for loop of update_html_content; a sys.exit raised
\* inside replace_segment_in_html would end the run before the success line
UpdateRule ==
    /\ pc = "updating"
    /\ ruleIdx < Len(replacements_config)
    /\ LET config == replacements_config[ruleIdx + 1]
           text == RuleReplacement(data, config)
           r == replace_segment_in_html(updated_content,
                    config.search_start_marker, config.search_end_marker, text,
                    config.search_start_occurrence, config.search_end_occurrence)
       IN  IF r.outcome = "returned"
           THEN /\ updated_content' = r.ret[1]
                /\ log' = log \o r.log \o
                     <<LogLine("INFO", "Successfully replaced segment", config.key, text)>>
                /\ ruleIdx' = ruleIdx + 1
                /\ UNCHANGED <<pc, outcome>>
           ELSE /\ log' = log \o r.log
                /\ pc' = "terminated"
                /\ outcome' = "terminated"
                /\ UNCHANGED <<updated_content, ruleIdx>>
    /\ UNCHANGED <<convVars, segArgs, ret, replacements_config, data, saved, bulkVars>>

\* return updated_content (line 185)
UpdateReturn ==
    /\ pc = "updating"
    /\ ruleIdx = Len(replacements_config)
    /\ pc' = "updated"
    /\ outcome' = "returned"
    /\ ret' = <<updated_content>>
    /\ UNCHANGED <<convVars, segArgs, log, updVars, bulkVars>>

\* save_html_content and the closing log line of process_html_template
SaveHtmlContent ==
    /\ pc = "updated"
    /\ pc' = "done"
    /\ saved' = <<ret[1]>>
    /\ log' = log \o <<LogLine("INFO", "Successfully saved updated HTML", "file", <<>>),
                       LogLine("INFO", "All operations completed successfully", "file", <<>>)>>
    /\ UNCHANGED <<convVars, segArgs, outcome, ret, replacements_config, ruleIdx,
                   updated_content, data, bulkVars>>

NextUpdate ==
    \/ UpdateRule
    \/ UpdateReturn
    \/ SaveHtmlContent

SpecUpdate == InitUpdate /\ [][NextUpdate]_vars

----------------------------------------------------------------------------
(* replace_all_markers_in_html *)

Pair(sm, em, st, et) ==
    [start_marker |-> sm, end_marker |-> em, start_tag |-> st, end_tag |-> et]

PairChoices ==
    [start_marker : {<<"a">>, <<"c">>, <<"a", "b">>},
     end_marker : {<<"b">>},
     start_tag : {<<"t">>, <<"t", "a">>},
     end_tag : {<<"u">>, <<"b">>, <<>>}]

\* markers is a dict: iteration in insertion order, keys (start, end) distinct
RECURSIVE MappingsOfLen(_)
MappingsOfLen(n) ==
    IF n = 0 THEN {<<>>}
    ELSE {Append(m, p) : m \in MappingsOfLen(n - 1),
                         p \in PairChoices} \cap
         {m \in Seq(PairChoices) :
             \A i, j \in 1 .. Len(m) :
                 (i # j) => <<m[i].start_marker, m[i].end_marker>>
                              # <<m[j].start_marker, m[j].end_marker>>}

Mappings == UNION {MappingsOfLen(n) : n \in 1 .. MaxPairs}

BulkContents == SeqsUpTo({"a", "b", "c"}, MaxBulkLen)

\* "X<a>keep</a>Y<a>keep2</a>Z" and "X<a>keep" with ("<a>","</a>") -> ("<b>","</b>")
TagA == <<"<", "a", ">">>
TagAEnd == <<"<", "/", "a", ">">>
TagB == <<"<", "b", ">">>
TagBEnd == <<"<", "/", "b", ">">>
Keep == <<"k", "e", "e", "p">>
ExampleContent ==
    <<"X">> \o TagA \o Keep \o TagAEnd \o <<"Y">> \o TagA \o Keep \o <<"2">>
        \o TagAEnd \o <<"Z">>
ExampleRewritten ==
    <<"X">> \o TagB \o Keep \o TagBEnd \o <<"Y">> \o TagB \o Keep \o <<"2">>
        \o TagBEnd \o <<"Z">>
ExampleUnmatched == <<"X">> \o TagA \o Keep
ExampleMapping == <<Pair(TagA, TagAEnd, TagB, TagBEnd)>>

\* tags that hold the markers they replace
MarkerTagMappings == {<<Pair(<<"a">>, <<"b">>, <<"a">>, <<"b">>)>>,
                      <<Pair(<<"c">>, <<"b">>, <<"c">>, <<"b", "b">>)>>}

InitBulk ==
    /\ pc = "bulk"
    /\ \/ html_content \in BulkContents /\ markers \in Mappings
       \/ html_content \in {ExampleContent, ExampleUnmatched} /\ markers = ExampleMapping
       \/ html_content \in BulkContents /\ markers \in MarkerTagMappings
    /\ IdleSegArgs
    /\ outcome = "none"
    /\ ret = <<>>
    /\ log = <<>>
    /\ IdleUpdate
    /\ pairIdx = 1
    /\ updated_html = html_content
    /\ IdleList
    /\ IdleMarkdown
    /\ IdleChat

\* lines 365 and 371
BulkStartIdx(html, p) == PyFind(html, p.start_marker, 0)

\* variant: the end marker is looked for only right behind the start marker
BulkEndIdxAdjacent(html, p) ==
    IF OccursAt(html, p.end_marker, BulkStartIdx(html, p) + Len(p.start_marker))
    THEN BulkStartIdx(html, p) + Len(p.start_marker)
    ELSE -1

BulkEndIdx(html, p) ==
    PyFind(html, p.end_marker, BulkStartIdx(html, p) + Len(p.start_marker))

\* variant: the end marker is left in the content after the replacement
bulk_splice_keep_end_marker(html, p, start_idx, end_idx) ==
    LET inner_content == PySlice(html, start_idx + Len(p.start_marker), end_idx)
        replacement == p.start_tag \o inner_content \o p.end_tag
    IN  PySliceTo(html, start_idx) \o replacement \o PySliceFrom(html, end_idx)

\* lines 379-390: the span start_marker ... end_marker is replaced by
\* start_tag + inner_content + end_tag
bulk_splice(html, p, start_idx, end_idx) ==
    LET inner_content == PySlice(html, start_idx + Len(p.start_marker), end_idx)
        replacement == p.start_tag \o inner_content \o p.end_tag
    IN  PySliceTo(html, start_idx) \o replacement
            \o PySliceFrom(html, end_idx + Len(p.end_marker))

\* no start marker left: break, the for loop moves to the next pair
BulkNoStart ==
    /\ pc = "bulk"
    /\ pairIdx <= Len(markers)
    /\ BulkStartIdx(updated_html, markers[pairIdx]) = -1
    /\ pairIdx' = pairIdx + 1
    /\ UNCHANGED <<convVars, pc, segArgs, outcome, ret, log, updVars, markers, updated_html>>

\* variant: an unmatched start marker ends the whole call
BulkUnmatchedReturns ==
    /\ pc = "bulk"
    /\ pairIdx <= Len(markers)
    /\ BulkStartIdx(updated_html, markers[pairIdx]) # -1
    /\ BulkEndIdx(updated_html, markers[pairIdx]) = -1
    /\ log' = Append(log, LogLine("INFO", "Unmatched start marker",
                                  markers[pairIdx].start_marker,
                                  markers[pairIdx].end_marker))
    /\ pairIdx' = Len(markers) + 1
    /\ UNCHANGED <<convVars, pc, segArgs, outcome, ret, updVars, markers, updated_html>>

\* start marker without end marker: log_message, break
BulkUnmatched ==
    /\ pc = "bulk"
    /\ pairIdx <= Len(markers)
    /\ BulkStartIdx(updated_html, markers[pairIdx]) # -1
    /\ BulkEndIdx(updated_html, markers[pairIdx]) = -1
    /\ log' = Append(log, LogLine("INFO", "Unmatched start marker",
                                  markers[pairIdx].start_marker,
                                  markers[pairIdx].end_marker))
    /\ pairIdx' = pairIdx + 1
    /\ UNCHANGED <<convVars, pc, segArgs, outcome, ret, updVars, markers, updated_html>>

\* one replacement; the while loop then searches the same pair again
BulkSplice ==
    /\ pc = "bulk"
    /\ pairIdx <= Len(markers)
    /\ BulkStartIdx(updated_html, markers[pairIdx]) # -1
    /\ BulkEndIdx(updated_html, markers[pairIdx]) # -1
    /\ LET new == bulk_splice(updated_html, markers[pairIdx],
                              BulkStartIdx(updated_html, markers[pairIdx]),
                              BulkEndIdx(updated_html, markers[pairIdx]))
       IN  /\ Len(new) <= Len(html_content) + MaxGrowth
           /\ updated_html' = new
    /\ UNCHANGED <<convVars, pc, segArgs, outcome, ret, log, updVars, markers, pairIdx>>

\* return updated_html (line 392)
BulkReturn ==
    /\ pc = "bulk"
    /\ pairIdx > Len(markers)
    /\ pc' = "bulk_done"
    /\ outcome' = "returned"
    /\ ret' = <<updated_html>>
    /\ UNCHANGED <<convVars, segArgs, log, updVars, bulkVars>>

NextBulk ==
    \/ BulkNoStart
    \/ BulkUnmatched
    \/ BulkSplice
    \/ BulkReturn

SpecBulk == InitBulk /\ [][NextBulk]_vars

\* the call runs on: the interpreter always takes the next step of the loop
SpecBulkFair == InitBulk /\ [][NextBulk]_vars /\ WF_vars(NextBulk)

----------------------------------------------------------------------------
(* docx_to_html_with_docx2python *)

UL == <<"u", "l">>
OL == <<"o", "l">>
NoType == <<>>                           \* current_type = None

OpenTag(tag) == <<"<">> \o tag \o <<">">>          \* f"<{tag}>"
CloseTag(tag) == <<"<", "/">> \o tag \o <<">">>    \* f"</{tag}>"
LiFragment(content) ==                              \* f"<li>{item_content}</li>"
    <<"<", "l", "i", ">">> \o content \o <<"<", "/", "l", "i", ">">>

Amp == <<"&", "a", "m", "p", ";">>
Lt == <<"&", "l", "t", ";">>
Gt == <<"&", "g", "t", ";">>

\* variant: '&' is replaced last, after '<' and '>' have become entities
EscapeHtmlAmpLast(text) ==
    PyReplace(PyReplace(PyReplace(text, <<"<">>, Lt), <<">">>, Gt), <<"&">>, Amp)

\* .replace("&", "&amp;").replace("<", "&lt;").replace(">", "&gt;")
EscapeHtml(text) ==
    PyReplace(PyReplace(PyReplace(text, <<"&">>, Amp), <<"<">>, Lt), <<">">>, Gt)

\* re.match(r"^(\t+)", paragraph): indent_level
IndentLevel(paragraph) == LeadingRun(paragraph, {"\t"})

\* re.match(r"^--\t", line_stripped)
BulletMatch(line) == PyStartsWith(line, <<"-", "-", "\t">>)

\* length of the match of r"^[0-9]+[\.)]\\s?" at the start of line, -1 when
\* there is none: digits, '.' or ')', a backslash character, an optional 's'
NumberMatchLen(line) ==
    LET k == LeadingRun(line, Digits)
    IN  IF /\ k >= 1
           /\ Len(line) >= k + 2
           /\ line[k + 1] \in {".", ")"}
           /\ line[k + 2] = "\\"
        THEN IF Len(line) >= k + 3 /\ line[k + 3] = "s" THEN k + 3 ELSE k + 2
        ELSE -1

\* lines 283-288
CurrentType(line) ==
    IF BulletMatch(line) THEN UL
    ELSE IF NumberMatchLen(line) # -1 THEN OL
    ELSE NoType

\* lines 310-316: the bullet or number marker is removed
ItemContent(line) ==
    IF BulletMatch(line) THEN SubSeq(line, 4, Len(line))
    ELSE SubSeq(line, NumberMatchLen(line) + 1, Len(line))

\* the converter's local state
ListState(stack, frags) == [list_stack |-> stack, html_fragments |-> frags]

\* variant: every closing fragment is "</ul>"
RECURSIVE close_to_level_always_ul(_, _)
close_to_level_always_ul(st, level) ==
    IF Len(st.list_stack) > level
    THEN close_to_level_always_ul(
             ListState(SubSeq(st.list_stack, 1, Len(st.list_stack) - 1),
                       Append(st.html_fragments, CloseTag(UL))),
             level)
    ELSE st

\* variant: the content of a plain paragraph is taken without its leading tabs
paragraph_content_stripped(paragraph, line_stripped) == EscapeHtml(line_stripped)

\* paragraph_content (lines 330-334)
paragraph_content(paragraph, line_stripped) == EscapeHtml(paragraph)

\* close_to_level(level)
RECURSIVE close_to_level(_, _)
close_to_level(st, level) ==
    IF Len(st.list_stack) > level
    THEN close_to_level(
             ListState(SubSeq(st.list_stack, 1, Len(st.list_stack) - 1),
                       Append(st.html_fragments,
                              CloseTag(st.list_stack[Len(st.list_stack)]))),
             level)
    ELSE st

\* close_all_lists()
close_all_lists(st) == close_to_level(st, 0)

\* open_list(list_type)
open_list(st, list_type) ==
    ListState(Append(st.list_stack, list_type),
              Append(st.html_fragments, OpenTag(list_type)))

\* variant: lists are opened while len(list_stack) <= desired_depth
RECURSIVE open_to_depth_one_more(_, _, _)
open_to_depth_one_more(st, desired_depth, current_type) ==
    IF Len(st.list_stack) <= desired_depth
    THEN open_to_depth_one_more(open_list(st, current_type), desired_depth,
                                current_type)
    ELSE st

\* while len(list_stack) < desired_depth: open_list(current_type)
RECURSIVE open_to_depth(_, _, _)
open_to_depth(st, desired_depth, current_type) ==
    IF Len(st.list_stack) < desired_depth
    THEN open_to_depth(open_list(st, current_type), desired_depth, current_type)
    ELSE st

\* lines 293-308: the stack is brought to desired_depth
adjust_stack(st, desired_depth, current_type) ==
    IF Len(st.list_stack) > desired_depth
    THEN close_to_level(st, desired_depth)
    ELSE IF Len(st.list_stack) < desired_depth
    THEN open_to_depth(st, desired_depth, current_type)
    ELSE IF st.list_stack[Len(st.list_stack)] # current_type
    THEN open_list(close_to_level(st, desired_depth - 1), current_type)
    ELSE st

\* the paragraphs a document is built from: leading tabs and a remainder
RECURSIVE Tabs(_)
Tabs(n) == IF n = 0 THEN <<>> ELSE <<"\t">> \o Tabs(n - 1)

ParaBodies ==
    {<<"-", "-", "\t", "A">>,
     <<"1", ".", " ", "B">>,
     <<"1", ".", "\\", "C">>,
     <<"2", ")", "\\", "s", "<", "&">>,
     <<"x", "&", "<", ">">>}

ParaChoices == {Tabs(n) \o b : n \in 0 .. MaxIndent, b \in ParaBodies}

\* ["--\tA", "1. B"] and ["--\tA", "\t--\tB", "\t--\tC", "D"]
ExampleSwitch == << <<"-", "-", "\t", "A">>, <<"1", ".", " ", "B">> >>
ExampleNested == << <<"-", "-", "\t", "A">>, <<"\t", "-", "-", "\t", "B">>,
                    <<"\t", "-", "-", "\t", "C">>, <<"D">> >>

Documents == UNION {[1 .. n -> ParaChoices] : n \in 1 .. MaxParas}
                \cup {ExampleSwitch, ExampleNested}

PTag == <<"<", "p", ">">>
PEndTag == <<"<", "/", "p", ">">>
Wrappers == {[entire_start |-> <<>>, entire_end |-> <<>>],
             [entire_start |-> <<"<", "s", ">">>, entire_end |-> <<"<", "/", "s", ">">>]}

InitList ==
    /\ pc = "list"
    /\ html_content = <<>>
    /\ IdleSegArgs
    /\ outcome = "none"
    /\ ret = <<>>
    /\ log = <<>>
    /\ IdleUpdate
    /\ IdleBulk
    /\ IdleMarkdown
    /\ IdleChat
    /\ paragraphs \in Documents
    /\ paraIdx = 0
    /\ \E w \in Wrappers : entire_start = w.entire_start /\ entire_end = w.entire_end
    /\ p_start = PTag
    /\ p_end = PEndTag
    /\ list_stack = <<>>
    /\ html_fragments = IF entire_start # <<>> THEN <<entire_start>> ELSE <<>>

\* loop body for a paragraph with a bullet or number marker (lines 290-325)
ListItem ==
    /\ pc = "list"
    /\ paraIdx < Len(paragraphs)
    /\ LET paragraph == paragraphs[paraIdx + 1]
           indent_level == IndentLevel(paragraph)
           line_stripped == SubSeq(paragraph, indent_level + 1, Len(paragraph))
           current_type == CurrentType(line_stripped)
           st == adjust_stack(ListState(list_stack, html_fragments),
                              indent_level + 1, current_type)
       IN  /\ current_type # NoType
           /\ list_stack' = st.list_stack
           /\ html_fragments' =
                  Append(st.html_fragments,
                         LiFragment(EscapeHtml(ItemContent(line_stripped))))
    /\ paraIdx' = paraIdx + 1
    /\ UNCHANGED <<pc, html_content, search_start_marker, search_end_marker,
                   start_occurrence, end_occurrence, replacement_text, outcome,
                   ret, log, updVars, bulkVars, chatVars, listArgs, mdVars>>

\* loop body for any other paragraph (lines 327-335)
ListPlain ==
    /\ pc = "list"
    /\ paraIdx < Len(paragraphs)
    /\ LET paragraph == paragraphs[paraIdx + 1]
           indent_level == IndentLevel(paragraph)
           line_stripped == SubSeq(paragraph, indent_level + 1, Len(paragraph))
           st == close_all_lists(ListState(list_stack, html_fragments))
       IN  /\ CurrentType(line_stripped) = NoType
           /\ list_stack' = st.list_stack
           /\ html_fragments' =
                  Append(st.html_fragments,
                         p_start \o paragraph_content(paragraph, line_stripped)
                                 \o p_end)
    /\ paraIdx' = paraIdx + 1
    /\ UNCHANGED <<pc, html_content, search_start_marker, search_end_marker,
                   start_occurrence, end_occurrence, replacement_text, outcome,
                   ret, log, updVars, bulkVars, chatVars, listArgs, mdVars>>

\* lines 337-343: remaining lists are closed and the fragments joined
ListFinish ==
    /\ pc = "list"
    /\ paraIdx = Len(paragraphs)
    /\ LET st == close_all_lists(ListState(list_stack, html_fragments))
           frags == IF entire_end # <<>>
                    THEN Append(st.html_fragments, entire_end)
                    ELSE st.html_fragments
       IN  /\ list_stack' = st.list_stack
           /\ html_fragments' = frags
           /\ ret' = <<PyJoin(frags, <<"\n">>)>>
    /\ pc' = "list_done"
    /\ outcome' = "returned"
    /\ UNCHANGED <<html_content, search_start_marker, search_end_marker,
                   start_occurrence, end_occurrence, replacement_text,
                   log, updVars, bulkVars, chatVars, listArgs, paraIdx, mdVars>>

NextList ==
    \/ ListItem
    \/ ListPlain
    \/ ListFinish

SpecList == InitList /\ [][NextList]_vars

----------------------------------------------------------------------------
(* markdown_to_html *)

\* str.strip()
RECURSIVE PyRStrip(_)
PyRStrip(s) ==
    IF s # <<>> /\ s[Len(s)] \in Whitespace
    THEN PyRStrip(SubSeq(s, 1, Len(s) - 1))
    ELSE s
PyStrip(s) == PyRStrip(SubSeq(s, LeadingRun(s, Whitespace) + 1, Len(s)))

UlOpenFragment ==    \* line 496
    <<"<", "u", "l", " ", "c", "l", "a", "s", "s", "=", "\"", "l", "i",
      "s", "t", "\"", " ", "r", "o", "l", "e", "=", "\"", "l", "i", "s",
      "t", "\"", ">">>
OlOpenFragment ==    \* line 511
    <<"<", "o", "l", " ", "c", "l", "a", "s", "s", "=", "\"", "l", "i",
      "s", "t", "\"", " ", "r", "o", "l", "e", "=", "\"", "l", "i", "s",
      "t", "\"", ">">>
UlCloseFragment == CloseTag(UL)
OlCloseFragment == CloseTag(OL)
BulletLiFragment(text) == <<" ", " ">> \o LiFragment(text)   \* f"  <li>{text}</li>"
StrongTag == <<"<", "s", "t", "r", "o", "n", "g", ">">>
StrongEndTag == <<"<", "/", "s", "t", "r", "o", "n", "g", ">">>
BoldMark == <<"*", "*">>
LevelDigit == <<"1", "2", "3", "4", "5", "6">>
HeadingFragment(level, text) ==        \* f"<h{level}>{text}</h{level}>"
    <<"<", "h", LevelDigit[level], ">">> \o text
        \o <<"<", "/", "h", LevelDigit[level], ">">>

\* variant: the text is escaped before the bold substitution
RECURSIVE InlineBoldEscaped(_)
InlineBoldEscaped(text) ==
    LET i == PyFind(text, BoldMark, 0)
        j == IF i = -1 THEN -1 ELSE PyFind(text, BoldMark, i + 2)
    IN  IF j = -1 THEN EscapeHtml(text)
        ELSE EscapeHtml(PySliceTo(text, i)) \o StrongTag
                 \o EscapeHtml(PySlice(text, i + 2, j))
                 \o StrongEndTag \o InlineBoldEscaped(PySliceFrom(text, j + 2))

\* re.sub(r"\*\*(.*?)\*\*", r"<strong>\1</strong>", text)
RECURSIVE InlineBold(_)
InlineBold(text) ==
    LET i == PyFind(text, BoldMark, 0)
        j == IF i = -1 THEN -1 ELSE PyFind(text, BoldMark, i + 2)
    IN  IF j = -1 THEN text
        ELSE PySliceTo(text, i) \o StrongTag \o PySlice(text, i + 2, j)
                 \o StrongEndTag \o InlineBold(PySliceFrom(text, j + 2))

\* re.match(r"(#+)\s*(H\d)?(:\s*)?(.*)", line): group 1 and group 4
HeadingLevel(line) == LeadingRun(line, {"#"})
HeadingText(line) ==
    LET r1 == PySliceFrom(line, HeadingLevel(line))
        r2 == PySliceFrom(r1, LeadingRun(r1, Whitespace))
        r3 == IF Len(r2) >= 2 /\ r2[1] = "H" /\ r2[2] \in Digits
              THEN PySliceFrom(r2, 2) ELSE r2
        r4 == IF r3 # <<>> /\ r3[1] = ":"
              THEN PySliceFrom(r3, 1 + LeadingRun(Tail(r3), Whitespace)) ELSE r3
    IN  PyStrip(r4)

\* re.match(r"\d+\.\s", line)
NumberedMatch(line) ==
    LET k == LeadingRun(line, Digits)
    IN  k >= 1 /\ Len(line) >= k + 2 /\ line[k + 1] = "." /\ line[k + 2] \in Whitespace

\* line.split(". ", 1): the number of parts, and part [1]
DotSpace == <<".", " ">>
SplitHasSecond(line) == PyFind(line, DotSpace, 0) # -1
SplitSecond(line) == PySliceFrom(line, PyFind(line, DotSpace, 0) + 2)

MdState(lines, il, iol, ip) ==
    [html_lines |-> lines, in_list |-> il, in_ordered_list |-> iol,
     in_paragraph |-> ip]

\* close_paragraph()
close_paragraph(st) ==
    IF st.in_paragraph
    THEN [st EXCEPT !.html_lines = Append(@, PEndTag), !.in_paragraph = FALSE]
    ELSE st

\* the two halves of close_list(), also inlined at lines 503-505 and 518-520
close_ul(st) ==
    IF st.in_list
    THEN [st EXCEPT !.html_lines = Append(@, UlCloseFragment), !.in_list = FALSE]
    ELSE st
close_ol(st) ==
    IF st.in_ordered_list
    THEN [st EXCEPT !.html_lines = Append(@, OlCloseFragment),
                    !.in_ordered_list = FALSE]
    ELSE st

\* variant: the ordered list is closed before the unordered one
close_list_ol_first(st) == close_ul(close_ol(st))

\* close_list()
close_list(st) == close_ol(close_ul(st))

\* variant: an opening bullet list leaves the flag unset
open_ul_unflagged(st) ==
    IF ~st.in_list
    THEN [st EXCEPT !.html_lines = Append(@, UlOpenFragment)]
    ELSE st

\* lines 495-497
open_ul(st) ==
    IF ~st.in_list
    THEN [st EXCEPT !.html_lines = Append(@, UlOpenFragment), !.in_list = TRUE]
    ELSE st

\* lines 510-512
open_ol(st) ==
    IF ~st.in_ordered_list
    THEN [st EXCEPT !.html_lines = Append(@, OlOpenFragment),
                    !.in_ordered_list = TRUE]
    ELSE st

\* lines 523-542, with sublines = [line]: a stripped line holds no "\n"
paragraph_line(st, line) ==
    LET opened == IF ~st.in_paragraph
                  THEN [st EXCEPT !.html_lines = Append(@, PTag),
                                  !.in_paragraph = TRUE]
                  ELSE st
        subline == InlineBold(PyStrip(line))
    IN  IF PyStrip(line) # <<>>
        THEN LET closed == close_paragraph(
                               [opened EXCEPT !.html_lines = Append(@, subline)])
             IN  IF subline # line      \* subline != sublines[-1]
                 THEN [closed EXCEPT !.html_lines = Append(@, PTag),
                                     !.in_paragraph = TRUE]
                 ELSE closed
        ELSE opened

\* lines of markdown_text.splitlines(): blank, plain, bullet, numbered and
\* heading lines, with surrounding whitespace, bold marks and '&', '<', '>'
MdLineChoices ==
    {<<>>,
     <<"a">>,
     <<" ", "b", "\t">>,
     <<"-", " ", "c">>,
     <<"-", " ", " ", "*", "*", "d", "*", "*">>,
     <<"1", ".", " ", "e">>,
     <<"1", ".", "\t", "f">>,
     <<"#", " ", "T">>,
     <<"#", "#", "H", "2", ":", " ", "g">>,
     <<"#", "#", "#", "#", "#", "#", "#", " ", "x">>,
     <<"&", "<", ">">>,
     <<"*", "*", "b", "*", "*">>,
     <<"-", " ", "<", "&">>,
     <<"#", " ", ">">>,
     <<"2", ".", " ", "&">>}
ExampleMarkdown ==
    <<<<"#", " ", "T", "i", "t", "l", "e">>,
      <<"-", " ", "i", "t", "e", "m", "1">>,
      <<"-", " ", "i", "t", "e", "m", "2">>,
      <<"p", "l", "a", "i", "n", " ", "t", "e", "x", "t">>>>
MarkdownTexts ==
    UNION {[1 .. n -> MdLineChoices] : n \in 0 .. MaxLines} \cup {ExampleMarkdown}

InitMarkdown ==
    /\ pc = "md"
    /\ html_content = <<>>
    /\ IdleSegArgs
    /\ outcome = "none"
    /\ ret = <<>>
    /\ log = <<>>
    /\ IdleUpdate
    /\ IdleBulk
    /\ IdleList
    /\ IdleChat
    /\ md_lines \in MarkdownTexts
    /\ lineIdx = 0
    /\ html_lines = <<>>
    /\ in_list = FALSE
    /\ in_ordered_list = FALSE
    /\ in_paragraph = FALSE

\* line = line.strip() of the line the loop is at (line 478)
MdLine == PyStrip(md_lines[lineIdx + 1])
MdCurrent == MdState(html_lines, in_list, in_ordered_list, in_paragraph)
MdStore(st) ==
    /\ html_lines' = st.html_lines
    /\ in_list' = st.in_list
    /\ in_ordered_list' = st.in_ordered_list
    /\ in_paragraph' = st.in_paragraph

\* a line starting with "#" (lines 481-490)
MdHeading ==
    /\ pc = "md"
    /\ lineIdx < Len(md_lines)
    /\ PyStartsWith(MdLine, <<"#">>)
    /\ LET st == close_list(close_paragraph(MdCurrent))
           level == HeadingLevel(MdLine)
       IN  MdStore(IF 1 <= level /\ level <= 6
                   THEN [st EXCEPT !.html_lines =
                             Append(@, HeadingFragment(level, HeadingText(MdLine)))]
                   ELSE st)
    /\ lineIdx' = lineIdx + 1
    /\ UNCHANGED <<html_content, search_start_marker, search_end_marker,
                   start_occurrence, end_occurrence, replacement_text,
                   log, updVars, bulkVars, chatVars, listVars, md_lines, pc, outcome, ret>>

\* a line starting with "- " (lines 493-501)
MdBullet ==
    /\ pc = "md"
    /\ lineIdx < Len(md_lines)
    /\ ~PyStartsWith(MdLine, <<"#">>)
    /\ PyStartsWith(MdLine, <<"-", " ">>)
    /\ LET st == open_ul(close_paragraph(MdCurrent))
           text == InlineBold(PyStrip(PySliceFrom(MdLine, 2)))
       IN  MdStore([st EXCEPT !.html_lines = Append(@, BulletLiFragment(text))])
    /\ lineIdx' = lineIdx + 1
    /\ UNCHANGED <<html_content, search_start_marker, search_end_marker,
                   start_occurrence, end_occurrence, replacement_text,
                   log, updVars, bulkVars, chatVars, listVars, md_lines, pc, outcome, ret>>

\* a line matching \d+\.\s (lines 502-516); [1] of a one-part split raises
\* IndexError, which ends the call
MdNumbered ==
    /\ pc = "md"
    /\ lineIdx < Len(md_lines)
    /\ ~PyStartsWith(MdLine, <<"#">>)
    /\ ~PyStartsWith(MdLine, <<"-", " ">>)
    /\ NumberedMatch(MdLine)
    /\ LET st == open_ol(close_paragraph(close_ul(MdCurrent)))
           text == InlineBold(PyStrip(SplitSecond(MdLine)))
       IN  IF SplitHasSecond(MdLine)
           THEN /\ MdStore([st EXCEPT !.html_lines = Append(@, LiFragment(text))])
                /\ lineIdx' = lineIdx + 1
                /\ UNCHANGED <<pc, outcome>>
           ELSE /\ MdStore(st)
                /\ pc' = "md_failed"
                /\ outcome' = "raised"
                /\ UNCHANGED lineIdx
    /\ UNCHANGED <<html_content, search_start_marker, search_end_marker,
                   start_occurrence, end_occurrence, replacement_text,
                   log, updVars, bulkVars, chatVars, listVars, md_lines, ret>>

\* any other line, blank lines included (lines 502-505, 517-542)
MdParagraph ==
    /\ pc = "md"
    /\ lineIdx < Len(md_lines)
    /\ ~PyStartsWith(MdLine, <<"#">>)
    /\ ~PyStartsWith(MdLine, <<"-", " ">>)
    /\ ~NumberedMatch(MdLine)
    /\ MdStore(paragraph_line(close_ol(close_ul(MdCurrent)), MdLine))
    /\ lineIdx' = lineIdx + 1
    /\ UNCHANGED <<html_content, search_start_marker, search_end_marker,
                   start_occurrence, end_occurrence, replacement_text,
                   log, updVars, bulkVars, chatVars, listVars, md_lines, pc, outcome, ret>>

\* after the last line (lines 544-548)
MdFinish ==
    /\ pc = "md"
    /\ lineIdx = Len(md_lines)
    /\ LET st == close_list(close_paragraph(MdCurrent))
       IN  /\ MdStore(st)
           /\ ret' = <<PyJoin(st.html_lines, <<"\n">>)>>
    /\ pc' = "md_done"
    /\ outcome' = "returned"
    /\ UNCHANGED <<html_content, search_start_marker, search_end_marker,
                   start_occurrence, end_occurrence, replacement_text,
                   log, updVars, bulkVars, chatVars, listVars, md_lines, lineIdx>>

NextMarkdown ==
    \/ MdHeading
    \/ MdBullet
    \/ MdNumbered
    \/ MdParagraph
    \/ MdFinish

SpecMarkdown == InitMarkdown /\ [][NextMarkdown]_vars

----------------------------------------------------------------------------
(* Chatbot.get_recent_history *)

UserMessages == {<<"h", "i">>, <<"?">>}
AgentAnswers == {<<"o", "k">>, <<"n", "o">>}
Turn(user, agent) == [user |-> user, agent |-> agent]

\* f"User: {turn['user']}\nAgent: {turn['agent']}\n"
UserLabel == <<"U", "s", "e", "r", ":", " ">>
AgentLabel == <<"\n", "A", "g", "e", "n", "t", ":", " ">>
TurnText(turn) == UserLabel \o turn.user \o AgentLabel \o turn.agent \o <<"\n">>

\* history_text += ... for turn in recent
RECURSIVE FormatTurns(_)
FormatTurns(recent) ==
    IF recent = <<>> THEN <<>>
    ELSE TurnText(Head(recent)) \o FormatTurns(Tail(recent))

\* recent = self.history[-n:]
get_recent_history(hist, n) == FormatTurns(PySliceFrom(hist, 0 - n))

InitChat ==
    /\ pc = "chat"
    /\ html_content = <<>>
    /\ IdleSegArgs
    /\ outcome = "none"
    /\ ret = <<>>
    /\ log = <<>>
    /\ IdleUpdate
    /\ IdleBulk
    /\ IdleList
    /\ IdleMarkdown
    /\ history = <<>>
    /\ recent_n = -1

\* generate_answer: the turn is appended to the history (lines 99, 137)
GenerateAnswer ==
    /\ pc = "chat"
    /\ Len(history) < MaxTurns
    /\ \E user_message \in UserMessages, answer \in AgentAnswers :
        /\ history' = Append(history, Turn(user_message, answer))
        /\ ret' = <<answer>>
    /\ recent_n' = -1
    /\ outcome' = "returned"
    /\ UNCHANGED <<pc, html_content, search_start_marker, search_end_marker,
                   start_occurrence, end_occurrence, replacement_text,
                   log, updVars, bulkVars, listVars, mdVars>>

\* get_recent_history(n)
GetRecentHistory ==
    /\ pc = "chat"
    /\ \E n \in 0 .. MaxN :
        /\ recent_n' = n
        /\ ret' = <<get_recent_history(history, n)>>
    /\ outcome' = "returned"
    /\ UNCHANGED <<pc, html_content, search_start_marker, search_end_marker,
                   start_occurrence, end_occurrence, replacement_text,
                   log, updVars, bulkVars, listVars, mdVars, history>>

NextChat ==
    \/ GenerateAnswer
    \/ GetRecentHistory

SpecChat == InitChat /\ [][NextChat]_vars

----------------------------------------------------------------------------
(* Reference notions the properties are stated with *)

\* offsets of the matches of marker in content, counted left to right
\* without overlap: each next match is the first one that starts at or
\* after the end of the previous match
RECURSIVE MatchesFrom(_, _, _)
MatchesFrom(content, marker, from) ==
    LET later == {i \in from .. Len(content) : OccursAt(content, marker, i)}
    IN  IF later = {} THEN <<>>
        ELSE <<Min(later)>> \o MatchesFrom(content, marker, Min(later) + Len(marker))

Matches(content, marker) == MatchesFrom(content, marker, 0)

StartFound == start_occurrence <= Len(Matches(html_content, search_start_marker))
SegStart == Matches(html_content, search_start_marker)[start_occurrence]
AfterStart == SubSeq(html_content, SegStart + Len(search_start_marker) + 1,
                     Len(html_content))
EndFound == StartFound /\ end_occurrence <= Len(Matches(AfterStart, search_end_marker))
EndAt == SegStart + Len(search_start_marker)
            + Matches(AfterStart, search_end_marker)[end_occurrence]
SegEnd == EndAt + Len(search_end_marker)

IsPrefix(p, s) == Len(p) <= Len(s) /\ SubSeq(s, 1, Len(p)) = p
IsSuffix(p, s) == Len(p) <= Len(s) /\ SubSeq(s, Len(s) - Len(p) + 1, Len(s)) = p

----------------------------------------------------------------------------
(* Properties of the segment engine *)

\* C1 (as claimed): replace_segment_in_html is fail-fast - when the
\* start_occurrence-th start marker or the end_occurrence-th end marker after
\* it is missing, the call ends in the terminated outcome and returns no
\* content.
ReplaceFailFast ==
    (pc = "replaced" /\ ~EndFound) => (outcome = "terminated" /\ ret = <<>>)

\* C3: find_nth_occurrence returns the 0-based offset of the n-th match
\* counted left to right without overlap, and -1 exactly when fewer than n
\* such matches exist; locate("ababab","ab",2) = 2, locate("ababab","ab",4) = -1.
LocateNthMatch ==
    pc = "located" =>
        LET ms == Matches(html_content, search_start_marker)
        IN  /\ outcome = "returned"
            /\ start_occurrence <= Len(ms) => ret = <<ms[start_occurrence]>>
            /\ start_occurrence > Len(ms) => ret = <<-1>>
            /\ (html_content = Ababab /\ search_start_marker = <<"a", "b">>) =>
                  /\ start_occurrence = 2 => ret = <<2>>
                  /\ start_occurrence = 4 => ret = <<-1>>

LocateWitness ==
    /\ pc = "located"
    /\ html_content = Ababab
    /\ search_start_marker = <<"a", "b">>
    /\ start_occurrence = 2
    /\ ret = <<2>>

\* C4: when both markers are found, get_segment_in_html returns
\* content[s : e + len(endMarker)], s the offset of the start match in the
\* whole content and e the offset of the end match counted only after the
\* start match; the text begins with the start marker and ends with the end
\* marker.
ExtractSpan ==
    (pc = "extracted" /\ EndFound) =>
        /\ outcome = "returned"
        /\ ret = <<SubSeq(html_content, SegStart + 1, SegEnd)>>
        /\ IsPrefix(search_start_marker, ret[1])
        /\ IsSuffix(search_end_marker, ret[1])

\* an extraction whose end marker also occurs before the start match, so
\* that counting end markers globally would give another span
ExtractWitness ==
    /\ pc = "extracted"
    /\ outcome = "returned"
    /\ EndFound
    /\ SegStart > 0
    /\ Len(Matches(html_content, search_end_marker)) >
           Len(Matches(AfterStart, search_end_marker))

\* C5: when both markers are found, replace_segment_in_html returns
\* content[:segStart] + replacement_text + content[segEnd:] for the span
\* [segStart, segEnd) that extract returns; the text before segStart and from
\* segEnd on is unchanged.
ReplaceSplice ==
    (pc = "replaced" /\ EndFound) =>
        /\ outcome = "returned"
        /\ ret = <<SubSeq(html_content, 1, SegStart) \o replacement_text
                     \o SubSeq(html_content, SegEnd + 1, Len(html_content))>>
        /\ IsPrefix(SubSeq(html_content, 1, SegStart), ret[1])
        /\ IsSuffix(SubSeq(html_content, SegEnd + 1, Len(html_content)), ret[1])
        /\ Len(ret[1]) = Len(html_content) - (SegEnd - SegStart) + Len(replacement_text)

ReplaceWitness ==
    /\ pc = "replaced"
    /\ EndFound
    /\ SegStart > 0
    /\ SegEnd < Len(html_content)
    /\ replacement_text # <<>>
    /\ ret # <<html_content>>

\* C6: extract-then-replace-with-itself reproduces the content exactly.
RoundTrip ==
    pc = "roundtrip" => (outcome = "returned" /\ ret = <<html_content>>)

RoundTripWitness ==
    /\ pc = "roundtrip"
    /\ SegStart > 0
    /\ SegEnd < Len(html_content)
    /\ ret = <<html_content>>

\* C7: get_segment_in_html is fail-fast - when the start marker occurrence
\* or the end marker occurrence after the start match is missing, the call
\* ends in the terminated outcome (log_and_terminate) and returns no segment.
ExtractFailFast ==
    (pc = "extracted" /\ ~EndFound) =>
        /\ outcome = "terminated"
        /\ ret = <<>>
        /\ log = IF StartFound
                 THEN <<LogLine("ERROR", "end marker not found",
                                search_end_marker, end_occurrence)>>
                 ELSE <<LogLine("ERROR", "start marker not found",
                                search_start_marker, start_occurrence)>>

ExtractFailWitness ==
    /\ pc = "extracted"
    /\ StartFound
    /\ ~EndFound
    /\ outcome = "terminated"

----------------------------------------------------------------------------
(* Properties of update_html_content / process_html_template *)

\* the rule's start marker occurrence, or its end marker occurrence after the
\* start match, does not exist in content
RuleMissing(content, config) ==
    LET ms == Matches(content, config.search_start_marker)
    IN  \/ config.search_start_occurrence > Len(ms)
        \/ LET s == ms[config.search_start_occurrence]
               rest == SubSeq(content, s + Len(config.search_start_marker) + 1,
                              Len(content))
           IN  config.search_end_occurrence > Len(Matches(rest, config.search_end_marker))

\* C2 (as claimed): a rule whose start or end marker cannot be located stops
\* the run at that rule - the run terminates, no later rule is applied, no
\* "Successfully replaced" line is logged for it, and no patched content is
\* returned or saved.
UpdateStopsAtMissingMarker ==
    [][(/\ pc = "updating"
        /\ ruleIdx < Len(replacements_config)
        /\ RuleMissing(updated_content, replacements_config[ruleIdx + 1]))
       => (/\ pc' = "terminated"
           /\ ruleIdx' = ruleIdx
           /\ updated_content' = updated_content
           /\ ret' = <<>>
           /\ saved' = <<>>
           /\ \A i \in Len(log) + 1 .. Len(log') :
                  log'[i][2] # "Successfully replaced segment")]_vars

----------------------------------------------------------------------------
(* Properties of replace_all_markers_in_html *)

\* an occurrence of the pair's start marker followed by an occurrence of its
\* end marker
HasPair(content, p) ==
    \E i, j \in 0 .. Len(content) :
        /\ OccursAt(content, p.start_marker, i)
        /\ OccursAt(content, p.end_marker, j)
        /\ j >= i + Len(p.start_marker)

EveryStartFollowed(content, p) ==
    \A i \in 0 .. Len(content) :
        OccursAt(content, p.start_marker, i) =>
            \E j \in i + Len(p.start_marker) .. Len(content) :
                OccursAt(content, p.end_marker, j)

\* the leftmost start marker of content exists and no end marker follows it
LeftmostUnmatched(content, p) ==
    /\ \E i \in 0 .. Len(content) : OccursAt(content, p.start_marker, i)
    /\ LET i == Min({k \in 0 .. Len(content) : OccursAt(content, p.start_marker, k)})
       IN  \A j \in i + Len(p.start_marker) .. Len(content) :
               ~OccursAt(content, p.end_marker, j)

\* content with each span start_marker ... end_marker rewritten in one pass
\* from left to right: the leftmost start is paired with the first end after
\* it, and the pass goes on behind that end marker
RECURSIVE OnePass(_, _)
OnePass(content, p) ==
    LET starts == {i \in 0 .. Len(content) : OccursAt(content, p.start_marker, i)}
    IN  IF starts = {} THEN content
        ELSE LET i == Min(starts)
                 ends == {j \in i + Len(p.start_marker) .. Len(content) :
                              OccursAt(content, p.end_marker, j)}
             IN  IF ends = {} THEN content
                 ELSE LET j == Min(ends)
                      IN  SubSeq(content, 1, i) \o p.start_tag
                            \o SubSeq(content, i + Len(p.start_marker) + 1, j)
                            \o p.end_tag
                            \o OnePass(SubSeq(content, j + Len(p.end_marker) + 1,
                                              Len(content)), p)

\* no replacement of the pass brings a start marker into the rewritten part:
\* after each replacement the start marker occurs at no offset before the end
\* of the inserted start_tag + inner + end_tag (done is the rewritten part,
\* rest the text the pass has not reached)
RECURSIVE NoStartInRewritten(_, _, _)
NoStartInRewritten(done, rest, p) ==
    LET starts == {i \in 0 .. Len(rest) : OccursAt(rest, p.start_marker, i)}
    IN  IF starts = {} THEN TRUE
        ELSE LET i == Min(starts)
                 ends == {j \in i + Len(p.start_marker) .. Len(rest) :
                              OccursAt(rest, p.end_marker, j)}
             IN  IF ends = {} THEN TRUE
                 ELSE LET j == Min(ends)
                          out == done \o SubSeq(rest, 1, i) \o p.start_tag
                                   \o SubSeq(rest, i + Len(p.start_marker) + 1, j)
                                   \o p.end_tag
                          rest2 == SubSeq(rest, j + Len(p.end_marker) + 1, Len(rest))
                      IN  /\ \A k \in 0 .. Len(out) - 1 :
                                 ~OccursAt(out \o rest2, p.start_marker, k)
                          /\ NoStartInRewritten(out, rest2, p)

\* C8 (as claimed): with one pair, when every start marker of the content is
\* followed by an end marker, the result is the content with each span
\* (leftmost start paired with the first end after it) replaced by
\* start_tag + inner + end_tag, inner text and text outside the spans unchanged.
BulkRewritesEachSpan ==
    (/\ pc = "bulk_done"
     /\ Len(markers) = 1
     /\ EveryStartFollowed(html_content, markers[1]))
    => ret = <<OnePass(html_content, markers[1])>>

\* C8 (amended): the same, provided no replacement brings a start marker into
\* the part already rewritten (no start marker inside an inner text or a tag,
\* or formed where they join the surrounding text); the example
\* "X<a>keep</a>Y<a>keep2</a>Z" yields "X<b>keep</b>Y<b>keep2</b>Z".
BulkRewritesEachSpanNoRescan ==
    /\ (/\ pc = "bulk_done"
        /\ Len(markers) = 1
        /\ EveryStartFollowed(html_content, markers[1])
        /\ NoStartInRewritten(<<>>, html_content, markers[1]))
       => (/\ ret = <<OnePass(html_content, markers[1])>>
           /\ log = <<>>)
    /\ (pc = "bulk_done" /\ html_content = ExampleContent /\ markers = ExampleMapping)
       => ret = <<ExampleRewritten>>

BulkRewriteWitness ==
    /\ pc = "bulk_done"
    /\ html_content = ExampleContent
    /\ markers = ExampleMapping
    /\ EveryStartFollowed(html_content, markers[1])
    /\ NoStartInRewritten(<<>>, html_content, markers[1])
    /\ ret = <<ExampleRewritten>>

\* C9: when the leftmost start marker of the current pair has no end marker
\* after it, the replacer logs one warning, leaves the content as it is,
\* raises no error and goes on with the next pair; "X<a>keep" is returned
\* unchanged with one warning.
BulkUnmatchedIsSkipped ==
    /\ [][(/\ pc = "bulk"
           /\ pairIdx <= Len(markers)
           /\ LeftmostUnmatched(updated_html, markers[pairIdx]))
          => (/\ updated_html' = updated_html
              /\ log' = Append(log, LogLine("INFO", "Unmatched start marker",
                                            markers[pairIdx].start_marker,
                                            markers[pairIdx].end_marker))
              /\ pairIdx' = pairIdx + 1
              /\ pc' = "bulk"
              /\ outcome' = "none")]_vars
    /\ [](outcome # "terminated")
    /\ []((pc = "bulk_done" /\ html_content = ExampleUnmatched /\ markers = ExampleMapping)
            => (ret = <<ExampleUnmatched>> /\ Len(log) = 1))

\* the first pair is abandoned at once and a later pair is still replaced
BulkUnmatchedWitness ==
    /\ pc = "bulk_done"
    /\ Len(markers) >= 2
    /\ LeftmostUnmatched(html_content, markers[1])
    /\ Len(log) = 1
    /\ log[1][3] = markers[1].start_marker
    /\ ret # <<html_content>>

\* C10 (as claimed): when the call returns without any unmatched-marker
\* warning, the returned content contains, for no pair of the mapping, a
\* start marker followed by an end marker of that pair.
BulkAllPairsReplaced ==
    (pc = "bulk_done" /\ log = <<>>) =>
        \A k \in 1 .. Len(markers) : ~HasPair(ret[1], markers[k])

----------------------------------------------------------------------------
(* Properties of the nested list converter *)

\* the classification of section 4.4: Bullet (UL) when the remainder starts
\* with "--<TAB>", Numbered (OL) when it starts with digits followed by '.'
\* or ')' (then optional whitespace), Plain (NoType) otherwise
Remainder(paragraph) ==
    SubSeq(paragraph, LeadingRun(paragraph, {"\t"}) + 1, Len(paragraph))
IsBulletPara(paragraph) == PyStartsWith(Remainder(paragraph), <<"-", "-", "\t">>)
IsNumberedPara(paragraph) ==
    LET rem == Remainder(paragraph)
        k == LeadingRun(rem, Digits)
    IN  k >= 1 /\ Len(rem) >= k + 1 /\ rem[k + 1] \in {".", ")"}
ItemType(paragraph) ==
    IF IsBulletPara(paragraph) THEN UL
    ELSE IF IsNumberedPara(paragraph) THEN OL
    ELSE NoType

Copies(x, n) == [i \in 1 .. n |-> x]
Last(seq) == seq[Len(seq)]

\* the paragraph the next step of the converter processes
Processing == pc = "list" /\ paraIdx < Len(paragraphs) /\ paraIdx' = paraIdx + 1
CurrentPara == paragraphs[paraIdx + 1]

LiA == LiFragment(<<"A">>)
LiB == LiFragment(<<"B">>)
LiC == LiFragment(<<"C">>)

\* C11 (as claimed): a list item whose desired depth equals the stack depth
\* and whose type differs from the top frame closes the top frame and opens
\* one of its own type before the item is emitted; ["--\tA", "1. B"] emits
\* <ul>, <li>A</li>, </ul>, <ol>, <li>B</li>, </ol>.
SiblingTypeSwitch ==
    /\ [][(/\ Processing
           /\ ItemType(CurrentPara) # NoType
           /\ Len(list_stack) = LeadingRun(CurrentPara, {"\t"}) + 1
           /\ Last(list_stack) # ItemType(CurrentPara))
          => (/\ list_stack' = Append(SubSeq(list_stack, 1, Len(list_stack) - 1),
                                      ItemType(CurrentPara))
              /\ Len(html_fragments') = Len(html_fragments) + 3
              /\ html_fragments'[Len(html_fragments) + 1] = CloseTag(Last(list_stack))
              /\ html_fragments'[Len(html_fragments) + 2] = OpenTag(ItemType(CurrentPara)))
         ]_vars
    /\ []((pc = "list_done" /\ paragraphs = ExampleSwitch /\ entire_start = <<>>)
            => html_fragments = <<OpenTag(UL), LiA, CloseTag(UL),
                                  OpenTag(OL), LiB, CloseTag(OL)>>)

\* C12 (as claimed): after a Bullet or Numbered paragraph with indentLevel i
\* has been processed the stack depth is i + 1; ["--\tA", "\t--\tB",
\* "\t--\tC", "D"] emits <ul>, <li>A</li>, <ul>, <li>B</li>, <li>C</li>,
\* </ul>, </ul>, <p>D</p>.
DepthIsIndentPlusOne ==
    /\ [][(Processing /\ ItemType(CurrentPara) # NoType)
          => Len(list_stack') = LeadingRun(CurrentPara, {"\t"}) + 1]_vars
    /\ []((pc = "list_done" /\ paragraphs = ExampleNested /\ entire_start = <<>>)
            => html_fragments = <<OpenTag(UL), LiA, OpenTag(UL), LiB, LiC,
                                  CloseTag(UL), CloseTag(UL),
                                  PTag \o <<"D">> \o PEndTag>>)

\* the lists left open by a sequence of fragments, outermost first; ok is
\* FALSE when a closing tag does not close the most recently opened unclosed
\* list of its own type
RECURSIVE OpenLists(_, _)
OpenLists(frags, open) ==
    IF frags = <<>> THEN [ok |-> TRUE, open |-> open]
    ELSE LET f == Head(frags)
         IN  IF f \in {OpenTag(UL), OpenTag(OL)}
             THEN OpenLists(Tail(frags), Append(open, SubSeq(f, 2, 3)))
             ELSE IF f \in {CloseTag(UL), CloseTag(OL)}
             THEN IF open # <<>> /\ Last(open) = SubSeq(f, 3, 4)
                  THEN OpenLists(Tail(frags), SubSeq(open, 1, Len(open) - 1))
                  ELSE [ok |-> FALSE, open |-> open]
             ELSE OpenLists(Tail(frags), open)

\* C13: the emitted list tags are well-formed - every closing tag closes the
\* most recently opened unclosed list and has its type, the stack is exactly
\* the lists open in the output - and the run ends with no list open.
ListTagsWellFormed ==
    LET r == OpenLists(html_fragments, <<>>)
    IN  /\ r.ok
        /\ r.open = list_stack
        /\ pc = "list_done" => list_stack = <<>>

\* a finished run that jumped from depth 0 to depth 3 and closed an ordered list
ListWellFormedWitness ==
    /\ pc = "list_done"
    /\ Len(paragraphs) >= 2
    /\ LeadingRun(paragraphs[1], {"\t"}) = 2
    /\ \E i \in 1 .. Len(html_fragments) : html_fragments[i] = CloseTag(OL)
    /\ \E i \in 1 .. Len(html_fragments) : html_fragments[i] = CloseTag(UL)

Max(S) == CHOOSE x \in S : \A y \in S : x >= y
MaxIndentSeen ==
    Max({0} \cup {LeadingRun(paragraphs[k], {"\t"}) : k \in 1 .. paraIdx})

\* C14 (as claimed): the stack depth is non-negative and never exceeds the
\* maximum indentation (leading-tab count) among the paragraphs processed.
DepthWithinMaxIndent ==
    Len(list_stack) >= 0 /\ Len(list_stack) <= MaxIndentSeen

\* C14 (amended): the stack depth never exceeds the maximum indentation
\* among the paragraphs processed plus one.
DepthWithinMaxIndentPlusOne ==
    Len(list_stack) >= 0 /\ Len(list_stack) <= MaxIndentSeen + 1

DepthBoundWitness ==
    /\ pc = "list"
    /\ paraIdx >= 2
    /\ MaxIndentSeen >= 1
    /\ Len(list_stack) = MaxIndentSeen + 1

\* C15 (as claimed): a list item whose desired depth exceeds the stack depth
\* d opens exactly desiredDepth - d frames, all of the item's type, and
\* closes none.
OpensMissingFrames ==
    [][(/\ Processing
        /\ ItemType(CurrentPara) # NoType
        /\ LeadingRun(CurrentPara, {"\t"}) + 1 > Len(list_stack))
       => LET n == LeadingRun(CurrentPara, {"\t"}) + 1 - Len(list_stack)
          IN  /\ list_stack' = list_stack \o Copies(ItemType(CurrentPara), n)
              /\ Len(html_fragments') = Len(html_fragments) + n + 1
              /\ \A i \in 1 .. n :
                     html_fragments'[Len(html_fragments) + i]
                         = OpenTag(ItemType(CurrentPara))]_vars

\* each character on its own: '&', '<', '>' become their entity, once
RECURSIVE EscapeEachChar(_)
EscapeEachChar(text) ==
    IF text = <<>> THEN <<>>
    ELSE (CASE Head(text) = "&" -> Amp
            [] Head(text) = "<" -> Lt
            [] Head(text) = ">" -> Gt
            [] OTHER -> <<Head(text)>>) \o EscapeEachChar(Tail(text))

\* the fragment is <li>...</li> or <p>...</p> around the once-escaped text
\* of the paragraph, or of the paragraph behind a stripped prefix
EmitsEscaped(frag, paragraph) ==
    \E k \in 0 .. Len(paragraph) :
        LET text == EscapeEachChar(SubSeq(paragraph, k + 1, Len(paragraph)))
        IN  frag \in {LiFragment(text), PTag \o text \o PEndTag}

\* C16: in list items and plain paragraphs every '&', '<' and '>' of the
\* source text is emitted as &amp;, &lt;, &gt; exactly once.
ListEscapesOnce ==
    [][Processing => EmitsEscaped(Last(html_fragments'), CurrentPara)]_vars

ListEscapeWitness ==
    /\ pc = "list"
    /\ paraIdx = 2
    /\ Last(html_fragments) = LiFragment(Lt \o Amp)
    /\ html_fragments[Len(html_fragments) - 2]
           = PTag \o <<"x">> \o Amp \o Lt \o Gt \o PEndTag

----------------------------------------------------------------------------
(* Properties of the Markdown converter *)

\* the step that processes the next line, and the fragments it appends
MdProcessing == pc = "md" /\ lineIdx < Len(md_lines) /\ lineIdx' = lineIdx + 1
MdAppended == SubSeq(html_lines', Len(html_lines) + 1, Len(html_lines'))

SpecialChars == {"&", "<", ">"}
HasSpecial(text) == \E i \in 1 .. Len(text) : text[i] \in SpecialChars
HasBoldMark(text) == PyFind(text, BoldMark, 0) # -1
Unescaped(text) == text

\* a fragment appended for the line is a heading, a list item or a paragraph
\* text around f applied to the line's text; the marker in front of the text
\* holds none of '&', '<', '>'
MdEmitsTextAs(f(_)) ==
    \E i \in 1 .. Len(MdAppended) : \E k \in 0 .. Len(MdLine) :
        /\ ~HasSpecial(SubSeq(MdLine, 1, k))
        /\ LET text == f(SubSeq(MdLine, k + 1, Len(MdLine)))
           IN  MdAppended[i] \in {text, LiFragment(text), BulletLiFragment(text)}
                                   \cup {HeadingFragment(n, text) : n \in 1 .. 6}

\* a line with '&', '<' or '>' in its text, of which a fragment is emitted
MdSpecialLine ==
    /\ MdProcessing
    /\ HasSpecial(MdLine)
    /\ ~HasBoldMark(MdLine)
    /\ HeadingLevel(MdLine) <= 6

\* C17 (as claimed): '&', '<' and '>' in the text of headings, list items
\* and paragraphs are emitted HTML-escaped, exactly once.
MdEscapesOnce == [][MdSpecialLine => MdEmitsTextAs(EscapeEachChar)]_vars

\* C17 (amended): '&', '<' and '>' in the text of headings, list items and
\* paragraphs are emitted as they are, not escaped.
MdEmitsUnescaped == [][MdSpecialLine => MdEmitsTextAs(Unescaped)]_vars

MdUnescapedWitness ==
    /\ pc = "md"
    /\ lineIdx = 3
    /\ md_lines = <<<<"&", "<", ">">>, <<"#", " ", ">">>, <<"-", " ", "<", "&">>>>
    /\ html_lines = <<PTag, <<"&", "<", ">">>, PEndTag,
                      HeadingFragment(1, <<">">>),
                      UlOpenFragment, BulletLiFragment(<<"<", "&">>)>>

\* C18 (as claimed): after any prefix of any input at most one of
\* in_paragraph, in_list and in_ordered_list is true.
MdBlockStateExclusive ==
    /\ ~(in_paragraph /\ in_list)
    /\ ~(in_paragraph /\ in_ordered_list)
    /\ ~(in_list /\ in_ordered_list)

IsBulletLine(line) ==
    PyStartsWith(PyStrip(line), <<"-", " ">>)

\* the bullet-list fragments of a sequence of lines: one opening per maximal
\* run of bullet lines, its items in order, one closing when the run is over
RECURSIVE BulletRuns(_, _, _)
BulletRuns(lines, inRun, atEnd) ==
    IF lines = <<>>
    THEN IF inRun /\ atEnd THEN <<UlCloseFragment>> ELSE <<>>
    ELSE IF IsBulletLine(Head(lines))
    THEN (IF inRun THEN <<>> ELSE <<UlOpenFragment>>)
             \o <<BulletLiFragment(InlineBold(PyStrip(PySliceFrom(PyStrip(Head(lines)), 2))))>>
             \o BulletRuns(Tail(lines), TRUE, atEnd)
    ELSE (IF inRun THEN <<UlCloseFragment>> ELSE <<>>)
             \o BulletRuns(Tail(lines), FALSE, atEnd)

IsBulletFragment(frag) ==
    \/ frag \in {UlOpenFragment, UlCloseFragment}
    \/ PyStartsWith(frag, <<" ", " ", "<", "l", "i", ">">>)
RECURSIVE BulletFragments(_)
BulletFragments(frags) ==
    IF frags = <<>> THEN <<>>
    ELSE (IF IsBulletFragment(Head(frags)) THEN <<Head(frags)>> ELSE <<>>)
             \o BulletFragments(Tail(frags))

ExampleMarkdownHtml ==
    <<HeadingFragment(1, <<"T", "i", "t", "l", "e">>),
      UlOpenFragment,
      BulletLiFragment(<<"i", "t", "e", "m", "1">>),
      BulletLiFragment(<<"i", "t", "e", "m", "2">>),
      UlCloseFragment,
      PTag, <<"p", "l", "a", "i", "n", " ", "t", "e", "x", "t">>, PEndTag>>

\* C19: a maximal run of k lines starting with "- " is emitted as one
\* unordered-list opening, k items in input order and one closing, and the
\* closing is the first fragment emitted once the run is over (by the next
\* non-bullet line or the end of input); the text "# Title\n- item1\n- item2\n
\* plain text" yields a heading, one list of two items and a paragraph.
MdBulletRunIsOneList ==
    /\ [](BulletFragments(html_lines)
              = BulletRuns(SubSeq(md_lines, 1, lineIdx), FALSE, pc # "md"))
    /\ [][(/\ pc = "md"
           /\ lineIdx >= 1
           /\ IsBulletLine(md_lines[lineIdx])
           /\ lineIdx < Len(md_lines) => ~IsBulletLine(md_lines[lineIdx + 1]))
          => (/\ Len(html_lines') > Len(html_lines)
              /\ html_lines'[Len(html_lines) + 1] = UlCloseFragment)]_vars
    /\ []((pc = "md_done" /\ md_lines = ExampleMarkdown)
            => html_lines = ExampleMarkdownHtml)

MdBulletRunWitness ==
    /\ pc = "md_done"
    /\ md_lines = ExampleMarkdown
    /\ html_lines = ExampleMarkdownHtml

IsPlainLine(line) ==
    /\ PyStrip(line) # <<>>
    /\ ~PyStartsWith(PyStrip(line), <<"#">>)
    /\ ~IsBulletLine(line)
    /\ ~NumberedMatch(PyStrip(line))

RECURSIVE OwnParagraphs(_)
OwnParagraphs(lines) ==
    IF lines = <<>> THEN <<>>
    ELSE <<PTag, InlineBold(PyStrip(Head(lines))), PEndTag>>
             \o OwnParagraphs(Tail(lines))

\* C20 (as claimed): k consecutive plain lines are emitted as k paragraph
\* elements, each an opening <p>, the line's text and a closing </p>.
MdPlainLinesOwnParagraph ==
    (/\ pc = "md_done"
     /\ \A i \in 1 .. Len(md_lines) : IsPlainLine(md_lines[i]))
        => html_lines = OwnParagraphs(md_lines)

----------------------------------------------------------------------------
(* Properties of Chatbot.get_recent_history *)

LastTurns(hist, k) == SubSeq(hist, Len(hist) - k + 1, Len(hist))

\* C21 (as claimed): get_recent_history(n) returns the formatted last
\* min(n, len(history)) turns in chronological order for every n >= 0, the
\* empty string for an empty history, and leaves the history unchanged.
RecentHistoryIsLastTurns ==
    /\ [](recent_n >= 0
            => ret = <<FormatTurns(LastTurns(history, Min({recent_n, Len(history)})))>>)
    /\ []((recent_n >= 0 /\ history = <<>>) => ret = << <<>> >>)
    /\ [][recent_n' >= 0 => history' = history]_vars

----------------------------------------------------------------------------
(* Further properties of the nested list converter *)

\* the text of a Numbered paragraph behind its marker: the digits, the '.'
\* or ')' and the whitespace after it
NumberedText(paragraph) ==
    LET rem == Remainder(paragraph)
        rest == SubSeq(rem, LeadingRun(rem, Digits) + 2, Len(rem))
    IN  SubSeq(rest, LeadingRun(rest, Whitespace) + 1, Len(rest))

\* C22 (as claimed): a paragraph whose remainder starts with digits followed
\* by '.' or ')' and optional whitespace is Numbered: it is emitted as an item
\* of an ordered list, the number marker stripped from its text.
NumberedIsOrderedItem ==
    [][(Processing /\ ~IsBulletPara(CurrentPara) /\ IsNumberedPara(CurrentPara))
       => (/\ list_stack' # <<>>
           /\ Last(list_stack') = OL
           /\ Last(html_fragments')
                  = LiFragment(EscapeEachChar(NumberedText(CurrentPara))))]_vars

\* the closing tags of a stack of open lists, innermost first
RECURSIVE ClosingTags(_)
ClosingTags(stack) ==
    IF stack = <<>> THEN <<>>
    ELSE <<CloseTag(Last(stack))>> \o ClosingTags(SubSeq(stack, 1, Len(stack) - 1))

\* C23 (as claimed): a Plain paragraph closes all open frames and is emitted
\* as pStart + text + pEnd, text being the paragraph without its leading tabs,
\* HTML-escaped.
PlainIsStrippedParagraph ==
    [][(Processing /\ ItemType(CurrentPara) = NoType)
       => (/\ list_stack' = <<>>
           /\ html_fragments' = html_fragments \o ClosingTags(list_stack)
                  \o <<p_start \o EscapeEachChar(Remainder(CurrentPara)) \o p_end>>)
      ]_vars

\* C23 (amended): a Plain paragraph closes all open frames and is emitted as
\* pStart + text + pEnd, text being the whole paragraph, leading tabs
\* included, HTML-escaped.
PlainIsWholeParagraph ==
    [][(Processing /\ ItemType(CurrentPara) = NoType)
       => (/\ list_stack' = <<>>
           /\ html_fragments' = html_fragments \o ClosingTags(list_stack)
                  \o <<p_start \o EscapeEachChar(CurrentPara) \o p_end>>)
      ]_vars

\* an indented plain paragraph after a nested bullet item
PlainParagraphWitness ==
    /\ pc = "list"
    /\ paraIdx = 2
    /\ paragraphs[1] = <<"\t", "-", "-", "\t", "A">>
    /\ paragraphs[2] = <<"\t", "x", "&", "<", ">">>
    /\ list_stack = <<>>
    /\ SubSeq(html_fragments, Len(html_fragments) - 2, Len(html_fragments))
           = <<CloseTag(UL), CloseTag(UL),
               PTag \o <<"\t", "x">> \o Amp \o Lt \o Gt \o PEndTag>>

IsLiFragment(frag) == PyStartsWith(frag, <<"<", "l", "i", ">">>)

\* C28 (as claimed): whenever a list item is emitted the top frame of the
\* stack has the item's type, also when frames were popped for the item.
ItemInsideOwnType ==
    [][(Processing /\ IsLiFragment(Last(html_fragments')))
       => (/\ list_stack' # <<>>
           /\ Last(list_stack') = ItemType(CurrentPara))]_vars

----------------------------------------------------------------------------
(* Termination of replace_all_markers_in_html *)

\* the next replacement would take the content beyond the lengths explored
BulkOutgrown ==
    /\ pc = "bulk"
    /\ pairIdx <= Len(markers)
    /\ BulkStartIdx(updated_html, markers[pairIdx]) # -1
    /\ BulkEndIdx(updated_html, markers[pairIdx]) # -1
    /\ Len(bulk_splice(updated_html, markers[pairIdx],
                       BulkStartIdx(updated_html, markers[pairIdx]),
                       BulkEndIdx(updated_html, markers[pairIdx])))
           > Len(html_content) + MaxGrowth

\* C27 (as claimed): replace_all_markers_in_html terminates for every content
\* and every mapping of non-empty markers to tags (within the lengths
\* explored: it returns unless the content outgrows them).
BulkTerminates == <>(pc = "bulk_done" \/ BulkOutgrown)

\* C26: the pairs are processed strictly in mapping order and a pair is
\* exhausted before the next one starts: when processing moves on from a
\* pair (to the next pair, or to the return after the last), the content
\* holds no occurrence of its start marker followed by one of its end marker.
BulkPairExhaustedInOrder ==
    [][/\ pairIdx' \in {pairIdx, pairIdx + 1}
       /\ (pairIdx' = pairIdx + 1)
              => (/\ pairIdx <= Len(markers)
                  /\ updated_html' = updated_html
                  /\ ~HasPair(updated_html, markers[pairIdx]))
       /\ (pc' = "bulk_done" /\ pc = "bulk") => pairIdx = Len(markers) + 1]_vars

\* the second pair is reached after the first was replaced, an unmatched
\* start marker of the first pair left behind
BulkPairOrderWitness ==
    /\ pc = "bulk"
    /\ Len(markers) = 2
    /\ pairIdx = 2
    /\ updated_html # html_content
    /\ BulkStartIdx(updated_html, markers[1]) # -1
    /\ HasPair(updated_html, markers[2])

----------------------------------------------------------------------------
(* Further properties of the Markdown converter *)

\* the line the converter is at, whatever the step does with it
MdAtLine == pc = "md" /\ lineIdx < Len(md_lines)

\* the text of a numbered line behind its marker: the digits, the dot and
\* the whitespace after it
MdNumberedText(line) ==
    PyStrip(SubSeq(line, LeadingRun(line, Digits) + 2, Len(line)))

\* C24 (as claimed): for every trimmed line matching ^\d+\.\s the converter
\* closes an open paragraph, opens an ordered list if none is open and emits
\* one list item holding the rest of the line after the number marker; no
\* such line makes the conversion fail.
MdNumberedLineIsItem ==
    [][(MdAtLine /\ NumberedMatch(MdLine))
       => (/\ pc' = "md"
           /\ outcome' # "raised"
           /\ lineIdx' = lineIdx + 1
           /\ in_ordered_list'
           /\ ~in_paragraph'
           /\ Len(html_lines') > Len(html_lines)
           /\ Last(html_lines') = LiFragment(InlineBold(MdNumberedText(MdLine)))
           /\ \A i \in 1 .. Len(MdAppended) - 1 :
                  MdAppended[i] \in {PEndTag, UlCloseFragment, OlOpenFragment}
           /\ (in_ordered_list => \A i \in 1 .. Len(MdAppended) :
                                      MdAppended[i] # OlOpenFragment))]_vars

\* the blocks left open by a sequence of fragments, outermost first; ok is
\* FALSE when a closing fragment does not close the most recently opened
\* unclosed block of its kind
RECURSIVE MdOpenBlocks(_, _)
MdOpenBlocks(frags, open) ==
    IF frags = <<>> THEN [ok |-> TRUE, open |-> open]
    ELSE LET f == Head(frags)
             kind == CASE f \in {PTag, PEndTag} -> "p"
                       [] f \in {UlOpenFragment, UlCloseFragment} -> "ul"
                       [] f \in {OlOpenFragment, OlCloseFragment} -> "ol"
                       [] OTHER -> "text"
         IN  IF f \in {PTag, UlOpenFragment, OlOpenFragment}
             THEN MdOpenBlocks(Tail(frags), Append(open, kind))
             ELSE IF f \in {PEndTag, UlCloseFragment, OlCloseFragment}
             THEN IF open # <<>> /\ Last(open) = kind
                  THEN MdOpenBlocks(Tail(frags), SubSeq(open, 1, Len(open) - 1))
                  ELSE [ok |-> FALSE, open |-> open]
             ELSE MdOpenBlocks(Tail(frags), open)

\* C25: the emitted block fragments are balanced - each closing fragment
\* closes the most recently opened unclosed block of its kind, the flags say
\* which blocks are open - and after the end of input nothing is open.
MdBlocksBalanced ==
    LET r == MdOpenBlocks(html_lines, <<>>)
    IN  /\ r.ok
        /\ in_paragraph <=> (\E i \in 1 .. Len(r.open) : r.open[i] = "p")
        /\ in_list <=> (\E i \in 1 .. Len(r.open) : r.open[i] = "ul")
        /\ in_ordered_list <=> (\E i \in 1 .. Len(r.open) : r.open[i] = "ol")
        /\ Len(r.open) <= 2
        /\ pc = "md_done" => (r.open = <<>> /\ ret = <<PyJoin(html_lines, <<"\n">>)>>)

\* a finished run that had a bullet list open inside an ordered list
MdBalancedWitness ==
    /\ pc = "md_done"
    /\ Len(md_lines) = 3
    /\ IsBulletLine(md_lines[2])
    /\ IsPlainLine(md_lines[3])
    /\ \E i \in 1 .. Len(html_lines) - 1 :
           html_lines[i] = UlCloseFragment /\ html_lines[i + 1] = OlCloseFragment

IsBlockFragment(frag) ==
    frag \in {PTag, PEndTag, UlOpenFragment, UlCloseFragment,
              OlOpenFragment, OlCloseFragment}

\* C29 (as claimed): no non-blank line is dropped - some fragment with the
\* line's text is emitted for it - and a line starting with seven or more '#'
\* is emitted as paragraph text.
MdNoLineDropped ==
    [][(MdProcessing /\ MdLine # <<>>)
       => (/\ \E i \in 1 .. Len(MdAppended) : ~IsBlockFragment(MdAppended[i])
           /\ HeadingLevel(MdLine) >= 7
                  => \E i \in 1 .. Len(MdAppended) - 1 :
                         /\ MdAppended[i] = InlineBold(MdLine)
                         /\ MdAppended[i + 1] = PEndTag)]_vars

\* C30 (as claimed): a blank line emits no fragment and changes no block
\* state.
MdBlankLineIsSkipped ==
    [][(MdProcessing /\ MdLine = <<>>)
       => UNCHANGED <<html_lines, in_list, in_ordered_list, in_paragraph>>]_vars

====
